---- MODULE Spec2Model ----
(***************************************************************************)
(* Model of the fetch-and-checkpoint engine of the Otzovik hotel-review    *)
(* crawler (src/parser.py, class OtzyovikParser, and src/config.py).       *)
(*                                                                         *)
(* One crawl process runs at a time.  Its in-memory state is the parser    *)
(* object's fields; the progress file and the output file are the durable  *)
(* state.  The site is the environment: each HTTP attempt is answered by a *)
(* response or a transport exception chosen from a small set, and each     *)
(* fetched page parses into a listing / review list chosen from a small    *)
(* set.                                                                    *)
(***************************************************************************)
EXTENDS Integers, Sequences, FiniteSets, TLC

VARIABLES
    results,            \* self.results: list of review records
    processed_hotels,   \* self.processed_hotels: set of hotel URLs
    processed_pages,    \* self.processed_pages: set of page numbers
    total_requests,     \* self.total_requests
    blocked_count,      \* self.blocked_count
    user_agent,         \* self.session.headers['User-Agent'] (index in USER_AGENTS)
    pc,                 \* position of the crawl process
    page_num,           \* run(): loop variable of the page loop
    hotels,             \* scrape_page(): the parsed listing of the current page
    i,                  \* scrape_page(): 1-based index of the hotel loop
    req,                \* make_request(): the active frame (url, caller, retry_count)
    ret,                \* make_request(): the value returned to the caller
    disk,               \* contents of config.PROGRESS_FILE
    out,                \* contents of config.OUTPUT_FILE (the exported records)
    ev,                 \* the side effects of the last step, in program order
    run_no,             \* number of parser processes started so far
    exit_status,        \* how run() of the current process ended
    script,             \* the answers the target gives on consecutive attempts
    c_resp,             \* input of the block classifier under SpecClassify
    c_verdict,          \* its verdict
    pg,                 \* history: the crawl state when the current listing
                        \* was parsed, and the hotel fetches started since
    site_requests,      \* the site: requests received from all processes
    config              \* self.config: the delay fields of the Config object

vars == <<results, processed_hotels, processed_pages, total_requests,
          blocked_count, user_agent, pc, page_num, hotels, i, req, ret,
          disk, out, ev, run_no, exit_status, script, c_resp, c_verdict,
          pg, site_requests, config>>

\* what only the requests, the construction of a parser and the stand-alone
\* specifications change
fixed == <<script, c_resp, c_verdict, site_requests, config>>

memvars == <<results, processed_hotels, processed_pages, total_requests,
             blocked_count>>

----------------------------------------------------------------------------
(* Configuration as the parser uses it.                                    *)

\* config.MAX_RETRIES
MAX_RETRIES == 3

\* Config._set_defaults: the delay fields (seconds)
DefaultConfig ==
    [DELAY_MIN |-> 8, DELAY_MAX |-> 15,
     DELAY_BETWEEN_PAGES_MIN |-> 5, DELAY_BETWEEN_PAGES_MAX |-> 10,
     DELAY_BETWEEN_HOTELS_MIN |-> 3, DELAY_BETWEEN_HOTELS_MAX |-> 7,
     DELAY_AFTER_BLOCK |-> 60]

\* config.DELAY_AFTER_BLOCK after OtzyovikParser.__init__ has overwritten it
DELAY_AFTER_BLOCK == 10

\* the Config objects a caller can hand to OtzyovikParser: each delay field
\* is the default or another value read from config.yml
SuppliedConfigs ==
    LET d == DefaultConfig
    IN  [DELAY_MIN : {d.DELAY_MIN, 3}, DELAY_MAX : {d.DELAY_MAX, 5},
         DELAY_BETWEEN_PAGES_MIN : {d.DELAY_BETWEEN_PAGES_MIN, 3},
         DELAY_BETWEEN_PAGES_MAX : {d.DELAY_BETWEEN_PAGES_MAX, 5},
         DELAY_BETWEEN_HOTELS_MIN : {d.DELAY_BETWEEN_HOTELS_MIN, 1},
         DELAY_BETWEEN_HOTELS_MAX : {d.DELAY_BETWEEN_HOTELS_MAX, 5},
         DELAY_AFTER_BLOCK : {d.DELAY_AFTER_BLOCK, 10}]

\* OtzyovikParser.__init__: self.config = config or Config(), then the seven
\* assignments to its delay fields
ConfigAfterInit(c) ==
    [c EXCEPT !.DELAY_MIN = 3, !.DELAY_MAX = 5,
              !.DELAY_BETWEEN_HOTELS_MIN = 3, !.DELAY_BETWEEN_HOTELS_MAX = 5,
              !.DELAY_BETWEEN_PAGES_MIN = 3, !.DELAY_BETWEEN_PAGES_MAX = 5,
              !.DELAY_AFTER_BLOCK = DELAY_AFTER_BLOCK]

\* the Config object of a constructed parser
ParserConfigs == { ConfigAfterInit(c) : c \in SuppliedConfigs }

\* seconds per attempt slept after a requests Timeout
TIMEOUT_BACKOFF == 2

\* seconds per attempt slept after another RequestException
NETWORK_BACKOFF == 1

\* len(response.text) threshold of the classifier and of the validity test
MIN_BODY_LEN == 1000

\* len(config.USER_AGENTS)
NUM_USER_AGENTS == 3

\* scrape_page saves the progress after every SAVE_EVERY-th hotel
SAVE_EVERY == 10

\* config.MAX_HOTELS_PER_PAGE
MAX_HOTELS_PER_PAGE == 20

UserAgents == 1..NUM_USER_AGENTS

BLOCK_STATUS == {403, 429, 503}

----------------------------------------------------------------------------
(* Bounds of the model.                                                    *)

\* run(start_page, end_page): pages StartPage..EndPage
EndPage == 2

\* parser processes started in one behaviour (first run plus resumed runs)
MaxRuns == 2

\* the site stops answering once it has received MaxRequests requests
MaxRequests == 3

StartPage == 1

Pages == StartPage..EndPage

Urls == {"A", "B"}

----------------------------------------------------------------------------
(* HTTP responses.                                                         *)

\* lengths of response.text that the code distinguishes
BodyLens == {0, 20, MIN_BODY_LEN - 1, MIN_BODY_LEN, MIN_BODY_LEN + 1}

Statuses == {200, 301, 403, 404, 429, 500, 503}

\* status: response.status_code; len: len(response.text);
\* marker: 'product-list' in response.text;
\* sig: some block indicator occurs in response.text.lower();
\* html: 'text/html' in the Content-Type header.
\* A marker needs 12 characters and an indicator at least 7.
Responses ==
    { r \in [status : Statuses, len : BodyLens, marker : BOOLEAN,
             sig : BOOLEAN, html : BOOLEAN] :
        (r.len = 0) => (~r.marker /\ ~r.sig) }

NoResponse == [status |-> 0, len |-> 0, marker |-> FALSE, sig |-> FALSE,
               html |-> FALSE]

\* bool(response): requests.Response.__bool__ is Response.ok, which is False
\* exactly for the statuses raise_for_status() raises on (400..599).
ResponseTruth(r) == ~(400 <= r.status /\ r.status < 600)

\* OtzyovikParser._is_blocked_response
IsBlockedResponse(r) ==
    IF ~ResponseTruth(r) THEN FALSE
    ELSE IF r.status \in BLOCK_STATUS THEN TRUE
    ELSE IF r.len > 0
         THEN IF r.sig THEN TRUE
              ELSE r.len < MIN_BODY_LEN /\ ~r.marker
         ELSE FALSE

----------------------------------------------------------------------------
(* What one HTTP attempt can meet: a response, or a transport exception.   *)

Outcomes ==
    [exc : {"none"}, r : Responses]
        \cup [exc : {"Timeout", "RequestException"}, r : {NoResponse}]

\* what attempt number a (0-based) of the current request can meet: what the
\* script says when the target follows one, else anything, as long as the
\* site answers at all
Served(a) ==
    IF script # <<>>
    THEN IF a + 1 <= Len(script) THEN {script[a + 1]} ELSE {}
    ELSE IF site_requests < MaxRequests THEN Outcomes ELSE {}

Ev(op, n) == [op |-> op, n |-> n]

NoReq == [url |-> "", caller |-> "", retry_count |-> 0]

\* variant of the retry test that allows one more retry
CanRetry_Inclusive(a) == a <= MAX_RETRIES

\* make_request: retry_count < self.config.MAX_RETRIES
CanRetry(a) == a < MAX_RETRIES

\* make_request: wait_time = DELAY_AFTER_BLOCK * (retry_count + 1)
BlockWait(a) == DELAY_AFTER_BLOCK * (a + 1)

\* variant of the wait after a timeout that does not grow with the attempt
TimeoutWait_Flat(a) == TIMEOUT_BACKOFF

\* make_request: time.sleep(2 * (retry_count + 1)) after a Timeout
TimeoutWait(a) == TIMEOUT_BACKOFF * (a + 1)

\* make_request: time.sleep(1 * (retry_count + 1)) after a RequestException
NetworkWait(a) == NETWORK_BACKOFF * (a + 1)

\* variant of the test that accepts a body of MIN_BODY_LEN characters
ValidBody_AtLeast(r) == r.html /\ r.len >= MIN_BODY_LEN

\* make_request: the test that lets a status-200 response be returned
ValidBody(r) == r.html /\ r.len > MIN_BODY_LEN

\* where make_request returns to
Continuation(caller) ==
    CASE caller = "list" -> "list_ret"
      [] caller = "hotel" -> "hotel_ret"
      [] OTHER -> "fetch_done"

\* variant of the status test that retries a missing page like a network
\* error
StatusOutcome_Retry404(r, a) ==
    IF r.status = 200
    THEN IF ValidBody(r)
         THEN [again |-> FALSE, value |-> "text", evs |-> <<Ev("ok", 0)>>]
         ELSE [again |-> FALSE, value |-> "None",
               evs |-> <<Ev("invalid", 0)>>]
    ELSE IF r.status = 404 /\ CanRetry(a)
         THEN [again |-> TRUE, value |-> "none",
               evs |-> <<Ev("notfound", 0), Ev("sleep", NetworkWait(a))>>]
         ELSE [again |-> FALSE, value |-> "None",
               evs |-> <<Ev("status", r.status)>>]

\* make_request: what a response that is not taken for blocked leads to, by
\* its status: the body, or None at once (again is FALSE in every branch)
StatusOutcome(r, a) ==
    IF r.status = 200
    THEN IF ValidBody(r)
         THEN [again |-> FALSE, value |-> "text", evs |-> <<Ev("ok", 0)>>]
         ELSE [again |-> FALSE, value |-> "None",
               evs |-> <<Ev("invalid", 0)>>]
    ELSE IF r.status = 404
         THEN [again |-> FALSE, value |-> "None",
               evs |-> <<Ev("notfound", 0)>>]
         ELSE [again |-> FALSE, value |-> "None",
               evs |-> <<Ev("status", r.status)>>]

\* make_request, up to the answer: the wait of _random_delay, then the GET
\* at retry_count a
Prelude_DelayFirstOnly(a) ==
    IF a = 0 THEN <<Ev("delay", 0), Ev("request", a)>>
    ELSE <<Ev("request", a)>>

Prelude(a) == <<Ev("delay", 0), Ev("request", a)>>

\* the causes of a retry and whether the retry draws a new User-Agent for
\* the session: only the branch of a blocked response does
RotateOn_AnyRetry(cause) == cause \in {"blocked", "Timeout", "RequestException"}

RotateOn(cause) == cause = "blocked"

\* make_request: what one activation does when the attempt meets outcome o
\* at retry_count a.  again: it calls itself with a + 1; value: what it
\* returns otherwise; blocked: blocked_count is incremented; rotate: a new
\* User-Agent is drawn; evs: its side effects in program order.
Attempt(o, a) ==
    LET sent == Prelude(a)
        drawn(cause) == IF RotateOn(cause) THEN <<Ev("rotate", 0)>> ELSE <<>>
        eff(again, value, blocked, rotate, more) ==
            [again |-> again, value |-> value, blocked |-> blocked,
             rotate |-> rotate, evs |-> sent \o more]
    IN  CASE o.exc = "Timeout" ->
               IF CanRetry(a)
               THEN eff(TRUE, "none", FALSE, RotateOn("Timeout"),
                        <<Ev("timeout", 0), Ev("sleep", TimeoutWait(a))>>
                            \o drawn("Timeout"))
               ELSE eff(FALSE, "None", FALSE, FALSE, <<Ev("timeout", 0)>>)
          [] o.exc = "RequestException" ->
               IF CanRetry(a)
               THEN eff(TRUE, "none", FALSE, RotateOn("RequestException"),
                        <<Ev("neterror", 0), Ev("sleep", NetworkWait(a))>>
                            \o drawn("RequestException"))
               ELSE eff(FALSE, "None", FALSE, FALSE, <<Ev("neterror", 0)>>)
          [] OTHER ->
               IF IsBlockedResponse(o.r)
               THEN IF CanRetry(a)
                    THEN eff(TRUE, "none", TRUE, RotateOn("blocked"),
                             <<Ev("blocked", 0), Ev("sleep", BlockWait(a))>>
                                 \o drawn("blocked"))
                    ELSE eff(FALSE, "None", TRUE, FALSE, <<Ev("blocked", 0)>>)
               ELSE LET so == StatusOutcome(o.r, a)
                    IN  eff(so.again, so.value, FALSE, FALSE, so.evs)

\* variant of make_request that counts first attempts only
CountRequest_FirstOnly(n, a) == IF a = 0 THEN n + 1 ELSE n

\* make_request: self.total_requests += 1, the first statement of every
\* activation, whatever retry_count a
CountRequest(n, a) == n + 1

\* One activation of make_request, up to its return or its recursive call.
MakeRequest ==
    /\ pc = "make_request"
    /\ total_requests' = CountRequest(total_requests, req.retry_count)
    /\ \E e \in { Attempt(o, req.retry_count) : o \in Served(req.retry_count) } :
         /\ blocked_count' = IF e.blocked THEN blocked_count + 1
                             ELSE blocked_count
         /\ IF e.rotate THEN user_agent' \in UserAgents
            ELSE user_agent' = user_agent
         /\ ev' = e.evs
         /\ ret' = e.value
         /\ IF e.again
            THEN /\ req' = [req EXCEPT !.retry_count = @ + 1]
                 /\ pc' = "make_request"
            ELSE /\ req' = NoReq
                 /\ pc' = Continuation(req.caller)
    /\ site_requests' = site_requests + 1
    /\ UNCHANGED <<results, processed_hotels, processed_pages, page_num,
                   hotels, i, disk, out, run_no, exit_status, script, c_resp,
                   c_verdict, pg, config>>

----------------------------------------------------------------------------
(* The progress file: _save_progress and _load_progress.                   *)

Range(s) == { s[k] : k \in DOMAIN s }

\* list(a_set): the members once each, in an order the program does not fix
ListsOf(S) ==
    { s \in [1..Cardinality(S) -> S] : Range(s) = S }

\* no progress file (os.path.exists is False)
NoFile == [state |-> "absent", processed_hotels |-> <<>>,
           processed_pages |-> <<>>, results |-> <<>>,
           total_requests |-> 0, blocked_count |-> 0]

\* a progress file cut short by a failed write: not parsable as JSON
CutFile == [NoFile EXCEPT !.state = "cut"]

\* results of writing a file: written whole, or the write raises after open()
WriteOutcomes == {"ok", "fails"}

\* _save_progress: the JSON documents json.dump(data) can write for the
\* parser fields m
ProgressData(m) ==
    { [state |-> "json", processed_hotels |-> hs, processed_pages |-> ps,
       results |-> m.results, total_requests |-> m.total_requests,
       blocked_count |-> m.blocked_count] :
        hs \in ListsOf(m.processed_hotels),
        ps \in ListsOf(m.processed_pages) }

\* _save_progress: the progress file after the call, for write outcome w
SavedProgress(m, w) ==
    IF w = "ok" THEN ProgressData(m) ELSE {CutFile}

\* the parser fields of a freshly constructed parser, before _load_progress
EmptyState == [results |-> <<>>, processed_hotels |-> {},
               processed_pages |-> {}, total_requests |-> 0,
               blocked_count |-> 0]

\* variant of _load_progress that does not restore blocked_count
LoadProgress_NoBlocked(f) ==
    IF f.state = "json"
    THEN [results |-> f.results,
          processed_hotels |-> Range(f.processed_hotels),
          processed_pages |-> Range(f.processed_pages),
          total_requests |-> f.total_requests,
          blocked_count |-> 0]
    ELSE EmptyState

\* _load_progress: the parser fields after loading file f.  The fields are
\* assigned one after the other inside the try block: a file of state
\* "bad_hotels" makes set(data.get('processed_hotels')) raise, before any
\* assignment; a file of state "bad_pages" makes
\* set(data.get('processed_pages')) raise, after processed_hotels has been
\* assigned.  A missing or unparsable file assigns nothing.
LoadProgress(f) ==
    IF f.state = "json"
    THEN [results |-> f.results,
          processed_hotels |-> Range(f.processed_hotels),
          processed_pages |-> Range(f.processed_pages),
          total_requests |-> f.total_requests,
          blocked_count |-> f.blocked_count]
    ELSE IF f.state = "bad_pages"
         THEN [EmptyState EXCEPT
                  !.processed_hotels = Range(f.processed_hotels)]
         ELSE EmptyState

\* the parser fields as one record
Memory == [results |-> results, processed_hotels |-> processed_hotels,
           processed_pages |-> processed_pages,
           total_requests |-> total_requests,
           blocked_count |-> blocked_count]

----------------------------------------------------------------------------
(* The output file: _save_results.                                         *)

\* df.drop_duplicates(subset=['review_id'], keep='last')
RECURSIVE DropDuplicatesLast(_)
DropDuplicatesLast(s) ==
    IF s = <<>> THEN <<>>
    ELSE IF \E k \in 2..Len(s) : s[k].review_id = s[1].review_id
         THEN DropDuplicatesLast(Tail(s))
         ELSE <<s[1]>> \o DropDuplicatesLast(Tail(s))

\* variant of _save_results that exports the buffer as it is
SavedResults_Raw(rs) == IF rs = <<>> THEN out ELSE rs

\* _save_results: the output file after the call
SavedResults(rs) == IF rs = <<>> THEN out ELSE DropDuplicatesLast(rs)

----------------------------------------------------------------------------
(* What the pages parse into.                                              *)

\* get_list_page_url
ListUrl(p) == IF p = 1 THEN "list" ELSE "list" \o ToString(p)

\* values of reviews_count a listing can show
ReviewCounts == {0, 3}

\* parse_list_page: a hotel descriptor
Hotels == [url : Urls, reviews_count : ReviewCounts]

\* the hotel containers a list page can hold: none, one, two or SAVE_EVERY
\* list pages of SAVE_EVERY containers: one hotel without reviews listed
\* over and over, then a hotel of any kind
LongContainers ==
    { [k \in 1..SAVE_EVERY |->
          IF k < SAVE_EVERY THEN [url |-> "A", reviews_count |-> 0] ELSE h] :
        h \in Hotels }

Containers ==
    {<<>>} \cup { <<h>> : h \in Hotels }
           \cup { <<g, h>> : g \in Hotels, h \in Hotels }
           \cup LongContainers

\* parse_list_page: the listings a fetched list page can parse into
Listings ==
    { IF Len(l) > MAX_HOTELS_PER_PAGE THEN SubSeq(l, 1, MAX_HOTELS_PER_PAGE)
      ELSE l : l \in Containers }

\* parse_hotel_page: the review lists a fetched hotel page can parse into;
\* rated is FALSE when review_rating_numeric is None
Review(h, k, rated) ==
    [review_id |-> [hotel |-> h.url, idx |-> k], hotel_url |-> h.url,
     rated |-> rated]

ReviewLists(h) ==
    {<<>>} \cup { <<Review(h, 1, rated)>> : rated \in BOOLEAN }

\* scrape_page: sum(r.get('review_rating_numeric', 0) ...) and the :.1f
\* formats raise TypeError when a rating is None
StatsRaise(revs) == \E k \in DOMAIN revs : ~revs[k].rated

----------------------------------------------------------------------------
(* The crawl driver: run and scrape_page.                                  *)

NoPage == [ph |-> {}, res |-> <<>>, fetched |-> <<>>]

\* variant of the call that writes nothing
SaveProgress_Skip(m) == disk' = disk

\* _save_progress called with parser fields m
SaveProgress(m) == \E w \in WriteOutcomes : disk' \in SavedProgress(m, w)

\* _save_progress seen from scrape_page, whose next statement leads to
\* position next: the exception of a failed write is caught and logged inside
\* the call, so the caller goes on whatever the write outcome w
AfterSave_Raises(w, next) == IF w = "fails" THEN "fatal" ELSE next

AfterSave(w, next) == next

\* _save_progress called in scrape_page with parser fields m
SaveProgressThen(m, next) ==
    \E w \in WriteOutcomes :
        /\ disk' \in SavedProgress(m, w)
        /\ pc' = AfterSave(w, next)

\* variant of scrape_page that never takes a page for processed
PageProcessed_Never(p) == FALSE

\* scrape_page: if page_num in self.processed_pages
PageProcessed(p) == p \in processed_pages

\* variant of the hotel test that never takes a hotel for processed
HotelProcessed_Never(h) == FALSE

\* variant of the hotel test that skips processed hotels without reviews only
HotelProcessed_Empty(h) == h.url \in processed_hotels /\ h.reviews_count = 0

\* scrape_page: if hotel['url'] in self.processed_hotels
HotelProcessed(h) == h.url \in processed_hotels

\* variant of the review count test that never holds
NoReviews_Never(h) == FALSE

\* scrape_page: if hotel['reviews_count'] == 0
NoReviews(h) == h.reviews_count = 0

\* variant of the failed listing fetch that marks the page
AfterFailedList_Marks(p) == processed_pages \cup {p}

\* scrape_page: processed_pages after "if not html: return False"
AfterFailedList(p) == processed_pages

\* variant of scrape_page that leaves a page without hotels unmarked
AfterEmptyList_Unmarked(p) == processed_pages

\* scrape_page: processed_pages after "if not hotels:
\* self.processed_pages.add(page_num)"
AfterEmptyList(p) == processed_pages \cup {p}

\* scrape_page: processed_hotels after "if not hotel_html: continue"
AfterFailedFetch(h) == processed_hotels

\* scrape_page: processed_hotels after self.processed_hotels.add(hotel['url'])
AfterMark_Replace(h) == {h.url}

AfterMark(h) == processed_hotels \cup {h.url}

\* run: top of the page loop, and scrape_page up to its first request
ScrapePage ==
    /\ pc = "run_loop"
    /\ page_num <= EndPage
    /\ IF PageProcessed(page_num)
       THEN /\ pc' = "page_done"
            /\ req' = req
            /\ ev' = <<Ev("page_skipped", page_num)>>
       ELSE /\ pc' = "make_request"
            /\ req' = [url |-> ListUrl(page_num), caller |-> "list",
                       retry_count |-> 0]
            /\ ev' = <<Ev("fetch_list", page_num)>>
    /\ UNCHANGED <<memvars, user_agent, page_num, hotels, i, ret, disk, out,
                   run_no, exit_status, fixed, pg>>

\* scrape_page: after make_request(page_url) has returned
ListRet ==
    /\ pc = "list_ret"
    /\ ret' = "none"
    /\ IF ret = "None"
       THEN /\ pc' = "page_done"
            /\ ev' = <<Ev("list_failed", page_num)>>
            /\ processed_pages' = AfterFailedList(page_num)
            /\ UNCHANGED <<hotels, i, disk, pg>>
       ELSE \E l \in Listings :
              IF l = <<>>
              THEN /\ processed_pages' = AfterEmptyList(page_num)
                   /\ SaveProgressThen([Memory EXCEPT !.processed_pages =
                                            AfterEmptyList(page_num)],
                                       "page_done")
                   /\ ev' = <<Ev("mark_page", page_num),
                              Ev("save_progress", 0)>>
                   /\ UNCHANGED <<hotels, i, pg>>
              ELSE /\ hotels' = l
                   /\ i' = 1
                   /\ pc' = "hotel"
                   /\ ev' = <<Ev("listed", Len(l))>>
                   /\ pg' = [ph |-> processed_hotels, res |-> results,
                             fetched |-> <<>>]
                   /\ UNCHANGED <<processed_pages, disk>>
    /\ UNCHANGED <<results, processed_hotels, total_requests, blocked_count,
                   user_agent, page_num, req, out, run_no, exit_status,
                   fixed>>

\* scrape_page: top of the hotel loop for hotels[i], up to its request
HotelStep ==
    /\ pc = "hotel"
    /\ i <= Len(hotels)
    /\ LET h == hotels[i]
       IN  IF HotelProcessed(h)
           THEN /\ i' = i + 1
                /\ ev' = <<Ev("hotel_skipped", i)>>
                /\ UNCHANGED <<processed_hotels, pc, req, pg>>
           ELSE IF NoReviews(h)
                THEN /\ processed_hotels' = AfterMark(h)
                     /\ i' = i + 1
                     /\ ev' = <<Ev("mark_hotel", i)>>
                     /\ UNCHANGED <<pc, req, pg>>
                ELSE /\ req' = [url |-> h.url, caller |-> "hotel",
                                retry_count |-> 0]
                     /\ pc' = "make_request"
                     /\ ev' = <<Ev("fetch_hotel", i)>>
                     /\ pg' = [pg EXCEPT !.fetched = Append(@, i)]
                     /\ UNCHANGED <<processed_hotels, i>>
    /\ UNCHANGED <<results, processed_pages, total_requests, blocked_count,
                   user_agent, page_num, hotels, ret, disk, out, run_no,
                   exit_status, fixed>>

\* scrape_page: after make_request(hotel['url']) has returned
HotelRet ==
    /\ pc = "hotel_ret"
    /\ ret' = "none"
    /\ IF ret = "None"
       THEN /\ processed_hotels' = AfterFailedFetch(hotels[i])
            /\ i' = i + 1
            /\ pc' = "hotel"
            /\ ev' = <<Ev("hotel_failed", i)>>
            /\ UNCHANGED results
       ELSE \E revs \in ReviewLists(hotels[i]) :
              /\ results' = results \o revs
              /\ ev' = <<Ev("extend", Len(revs))>>
              /\ pc' = IF StatsRaise(revs) THEN "fatal" ELSE "hotel_mark"
              /\ UNCHANGED <<processed_hotels, i>>
    /\ UNCHANGED <<processed_pages, total_requests, blocked_count,
                   user_agent, page_num, hotels, req, disk, out, run_no,
                   exit_status, fixed, pg>>

\* scrape_page: the end of a loop iteration whose hotel page was parsed
HotelMark ==
    /\ pc = "hotel_mark"
    /\ processed_hotels' = AfterMark(hotels[i])
    /\ LET pause == IF i < Len(hotels) THEN <<Ev("sleep_hotel", 0)>> ELSE <<>>
       IN  IF i % SAVE_EVERY = 0
           THEN /\ SaveProgressThen([Memory EXCEPT !.processed_hotels =
                                         AfterMark(hotels[i])], "hotel")
                /\ out' = SavedResults(results)
                /\ ev' = <<Ev("mark_hotel", i), Ev("save_progress", 0),
                           Ev("save_results", 0)>> \o pause
           ELSE /\ ev' = <<Ev("mark_hotel", i)>> \o pause
                /\ pc' = "hotel"
                /\ UNCHANGED <<disk, out>>
    /\ i' = i + 1
    /\ UNCHANGED <<results, processed_pages, total_requests, blocked_count,
                   user_agent, page_num, hotels, req, ret, run_no,
                   exit_status, fixed, pg>>

\* scrape_page: after the hotel loop
PageFinish ==
    /\ pc = "hotel"
    /\ i > Len(hotels)
    /\ processed_pages' = processed_pages \cup {page_num}
    /\ SaveProgressThen([Memory EXCEPT !.processed_pages = @ \cup {page_num}],
                        "page_done")
    /\ out' = SavedResults(results)
    /\ ev' = <<Ev("mark_page", page_num), Ev("save_progress", 0),
               Ev("save_results", 0)>>
    /\ UNCHANGED <<results, processed_hotels, total_requests, blocked_count,
                   user_agent, page_num, hotels, i, req, ret, run_no,
                   exit_status, fixed, pg>>

\* run: the pause after page p, slept unless p is the last page
PagePause_None(p) == <<>>

PagePause(p) == IF p < EndPage THEN <<Ev("sleep_page", 0)>> ELSE <<>>

\* run: after scrape_page has returned, the pause and the next page
NextPage ==
    /\ pc = "page_done"
    /\ ev' = PagePause(page_num)
    /\ page_num' = page_num + 1
    /\ pc' = "run_loop"
    /\ hotels' = <<>>
    /\ i' = 0
    /\ pg' = NoPage
    /\ UNCHANGED <<memvars, user_agent, req, ret, disk, out, run_no,
                   exit_status, fixed>>

\* run: the value it returns when it has ended in the way how ("completed",
\* "interrupted", "error"): no path of run has a return statement, and both
\* handlers end without raising again
RunReturn(how) == "None"

\* main: the exit code of the process after parser.run(...) has ended in
\* the way how: main drops the value, never calls sys.exit and returns
ProcessExit(how) == 0

\* run: the page loop is over; the final report and _save_results
RunFinish ==
    /\ pc = "run_loop"
    /\ page_num > EndPage
    /\ out' = SavedResults(results)
    /\ ev' = <<Ev("save_results", 0)>>
    /\ pc' = "done"
    /\ exit_status' = "completed"
    /\ UNCHANGED <<memvars, user_agent, page_num, hotels, i, req, ret, disk,
                   run_no, fixed, pg>>

\* run: except Exception, reached by the TypeError of the page statistics
FatalError ==
    /\ pc = "fatal"
    /\ SaveProgress(Memory)
    /\ out' = SavedResults(results)
    /\ ev' = <<Ev("save_progress", 0), Ev("save_results", 0)>>
    /\ pc' = "done"
    /\ exit_status' = "error"
    /\ UNCHANGED <<memvars, user_agent, page_num, hotels, i, req, ret,
                   run_no, fixed, pg>>

\* run: except KeyboardInterrupt, raised wherever the crawl is
Interrupt ==
    /\ pc \in {"run_loop", "make_request", "list_ret", "hotel", "hotel_ret",
               "hotel_mark", "page_done"}
    /\ SaveProgress(Memory)
    /\ out' = SavedResults(results)
    /\ ev' = <<Ev("interrupt", 0), Ev("save_progress", 0),
               Ev("save_results", 0)>>
    /\ pc' = "done"
    /\ exit_status' = "interrupted"
    /\ req' = NoReq
    /\ ret' = "none"
    /\ UNCHANGED <<memvars, user_agent, page_num, hotels, i, run_no, fixed,
                   pg>>

\* A new parser process: OtzyovikParser.__init__ with _load_progress, after
\* the previous process has ended or has been killed where it was.
Restart ==
    /\ pc \in {"run_loop", "make_request", "list_ret", "hotel", "hotel_ret",
               "hotel_mark", "page_done", "fatal", "done"}
    /\ run_no < MaxRuns
    /\ run_no' = run_no + 1
    /\ LET m == LoadProgress(disk)
       IN  /\ results' = m.results
           /\ processed_hotels' = m.processed_hotels
           /\ processed_pages' = m.processed_pages
           /\ total_requests' = m.total_requests
           /\ blocked_count' = m.blocked_count
    /\ user_agent' \in UserAgents
    /\ pc' = "run_loop"
    /\ page_num' = StartPage
    /\ hotels' = <<>>
    /\ i' = 0
    /\ req' = NoReq
    /\ ret' = "none"
    /\ pg' = NoPage
    /\ ev' = <<Ev("load_progress", 0)>>
    /\ exit_status' = "running"
    /\ config' \in ParserConfigs
    /\ UNCHANGED <<disk, out, script, c_resp, c_verdict, site_requests>>

----------------------------------------------------------------------------
(* The crawl.                                                              *)

\* what every specification starts from: a parser constructed where no
\* progress file exists, with nothing requested yet
Fresh ==
    /\ results = <<>>
    /\ processed_hotels = {}
    /\ processed_pages = {}
    /\ total_requests = 0
    /\ blocked_count = 0
    /\ page_num = StartPage
    /\ hotels = <<>>
    /\ i = 0
    /\ ret = "none"
    /\ disk = NoFile
    /\ out = <<>>
    /\ ev = <<>>
    /\ run_no = 1
    /\ exit_status = "running"
    /\ pg = NoPage
    /\ site_requests = 0

Init ==
    /\ Fresh
    /\ user_agent \in UserAgents
    /\ pc = "run_loop"
    /\ req = NoReq
    /\ script = <<>>
    /\ c_resp = NoResponse
    /\ c_verdict = "unset"
    /\ config \in ParserConfigs

Next ==
    \/ ScrapePage
    \/ MakeRequest
    \/ ListRet
    \/ HotelStep
    \/ HotelRet
    \/ HotelMark
    \/ PageFinish
    \/ NextPage
    \/ RunFinish
    \/ FatalError
    \/ Interrupt
    \/ Restart

Spec == Init /\ [][Next]_vars

----------------------------------------------------------------------------
(* One fetch: make_request(url) against a target that follows a script.    *)

\* page bodies a scripted target serves: a full listing page, a short page
\* without the marker, a full page carrying a block indicator
ScriptBodies ==
    { [len |-> MIN_BODY_LEN + 1, marker |-> TRUE, sig |-> FALSE],
      [len |-> MIN_BODY_LEN - 1, marker |-> FALSE, sig |-> FALSE],
      [len |-> MIN_BODY_LEN + 1, marker |-> TRUE, sig |-> TRUE] }

ScriptOutcomes ==
    { o \in Outcomes :
        \/ o.exc # "none"
        \/ /\ o.r.status \in {200, 301, 404, 429, 500}
           /\ o.r.html
           /\ [len |-> o.r.len, marker |-> o.r.marker, sig |-> o.r.sig]
                  \in ScriptBodies }

\* one answer for each attempt make_request can make
Scripts == [1..(MAX_RETRIES + 1) -> ScriptOutcomes]

InitFetch ==
    /\ Fresh
    /\ user_agent = 1
    /\ pc = "make_request"
    /\ req = [url |-> "A", caller |-> "fetch", retry_count |-> 0]
    /\ script \in Scripts
    /\ c_resp = NoResponse
    /\ c_verdict = "unset"
    /\ config \in ParserConfigs

NextFetch == MakeRequest

SpecFetch == InitFetch /\ [][NextFetch]_vars

\* one fetch against a target whose first two answers are any response or
\* transport exception, with every body length, marker, block indicator and
\* content type the code distinguishes
BodyScripts == [1..2 -> Outcomes]

InitFetchBody ==
    /\ Fresh
    /\ user_agent = 1
    /\ pc = "make_request"
    /\ req = [url |-> "A", caller |-> "fetch", retry_count |-> 0]
    /\ script \in BodyScripts
    /\ c_resp = NoResponse
    /\ c_verdict = "unset"
    /\ config \in ParserConfigs

SpecFetchBody == InitFetchBody /\ [][NextFetch]_vars

\* the process runs on: a sleep ends, a request is answered or times out
SpecFetchFair == SpecFetch /\ WF_vars(MakeRequest)

----------------------------------------------------------------------------
(* The block classifier alone: _is_blocked_response(response).             *)

Classify ==
    /\ pc = "classify"
    /\ c_verdict = "unset"
    /\ c_verdict' = IF IsBlockedResponse(c_resp) THEN "BLOCKED" ELSE "ALLOWED"
    /\ UNCHANGED <<memvars, user_agent, pc, page_num, hotels, i, req, ret,
                   disk, out, ev, run_no, exit_status, script, c_resp, pg,
                   site_requests, config>>

InitClassify ==
    /\ Fresh
    /\ user_agent = 1
    /\ pc = "classify"
    /\ req = NoReq
    /\ script = <<>>
    /\ c_resp \in Responses
    /\ c_verdict = "unset"
    /\ config \in ParserConfigs

NextClassify == Classify

SpecClassify == InitClassify /\ [][NextClassify]_vars

----------------------------------------------------------------------------
(* The export alone: _save_results() on a result buffer.                   *)

\* the number of records in the buffers the export is tried on
MaxBuffer == 4

\* records parse_hotel_page can have built for the hotels of Urls
BufferRecords ==
    { Review([url |-> u, reviews_count |-> 3], 1, rated) :
        u \in Urls, rated \in BOOLEAN }

\* result buffers: any records in any order of appending
Buffers ==
    UNION { [1..n -> BufferRecords] : n \in 0..MaxBuffer }

SaveResults ==
    /\ pc = "save_results"
    /\ out' = SavedResults(results)
    /\ ev' = <<Ev("save_results", 0)>>
    /\ pc' = "saved"
    /\ UNCHANGED <<memvars, user_agent, page_num, hotels, i, req, ret, disk,
                   run_no, exit_status, fixed, pg>>

InitExport ==
    /\ results \in Buffers
    /\ processed_hotels = {}
    /\ processed_pages = {}
    /\ total_requests = 0
    /\ blocked_count = 0
    /\ page_num = StartPage
    /\ hotels = <<>>
    /\ i = 0
    /\ ret = "none"
    /\ disk = NoFile
    /\ out = <<>>
    /\ ev = <<>>
    /\ run_no = 1
    /\ exit_status = "running"
    /\ pg = NoPage
    /\ site_requests = 0
    /\ user_agent = 1
    /\ pc = "save_results"
    /\ req = NoReq
    /\ script = <<>>
    /\ c_resp = NoResponse
    /\ c_verdict = "unset"
    /\ config \in ParserConfigs

NextExport == SaveResults

SpecExport == InitExport /\ [][NextExport]_vars

----------------------------------------------------------------------------
(* The load alone: _load_progress() on a progress file found at start.     *)

\* JSON documents with the five fields well formed
GoodFiles ==
    { [state |-> "json", processed_hotels |-> hs, processed_pages |-> ps,
       results |-> rs, total_requests |-> t, blocked_count |-> b] :
        hs \in UNION { ListsOf(S) : S \in SUBSET Urls },
        ps \in UNION { ListsOf(S) : S \in SUBSET Pages },
        rs \in { <<>>, <<Review([url |-> "A", reviews_count |-> 3], 1, TRUE)>> },
        t \in {0, 2},
        b \in {0, 1} }

\* JSON documents whose 'processed_hotels' or 'processed_pages' value is not
\* a list of hashable items (a number, a list of lists), the rest as above
BadFiles ==
    { [f EXCEPT !.state = st, !.processed_pages = <<>>] :
        f \in GoodFiles, st \in {"bad_hotels", "bad_pages"} }

\* the progress files a parser can find when it is constructed
FoundFiles == {NoFile, CutFile} \cup GoodFiles \cup BadFiles

Load ==
    /\ pc = "load"
    /\ LET m == LoadProgress(disk)
       IN  /\ results' = m.results
           /\ processed_hotels' = m.processed_hotels
           /\ processed_pages' = m.processed_pages
           /\ total_requests' = m.total_requests
           /\ blocked_count' = m.blocked_count
    /\ ev' = <<Ev("load_progress", 0)>>
    /\ pc' = "loaded"
    /\ UNCHANGED <<user_agent, page_num, hotels, i, req, ret, disk, out,
                   run_no, exit_status, fixed, pg>>

InitLoad ==
    /\ results = <<>>
    /\ processed_hotels = {}
    /\ processed_pages = {}
    /\ total_requests = 0
    /\ blocked_count = 0
    /\ page_num = StartPage
    /\ hotels = <<>>
    /\ i = 0
    /\ ret = "none"
    /\ disk \in FoundFiles
    /\ out = <<>>
    /\ ev = <<>>
    /\ run_no = 1
    /\ exit_status = "running"
    /\ pg = NoPage
    /\ site_requests = 0
    /\ user_agent = 1
    /\ pc = "load"
    /\ req = NoReq
    /\ script = <<>>
    /\ c_resp = NoResponse
    /\ c_verdict = "unset"
    /\ config \in ParserConfigs

NextLoad == Load

SpecLoad == InitLoad /\ [][NextLoad]_vars

----------------------------------------------------------------------------
(* The construction of a parser alone: OtzyovikParser(config).             *)

\* __init__ with the Config object the caller supplies: the delay fields are
\* assigned, the session is created and the progress file is loaded
Construct ==
    /\ pc = "construct"
    /\ config' = ConfigAfterInit(config)
    /\ user_agent' \in UserAgents
    /\ LET m == LoadProgress(disk)
       IN  /\ results' = m.results
           /\ processed_hotels' = m.processed_hotels
           /\ processed_pages' = m.processed_pages
           /\ total_requests' = m.total_requests
           /\ blocked_count' = m.blocked_count
    /\ ev' = <<Ev("load_progress", 0)>>
    /\ pc' = "constructed"
    /\ UNCHANGED <<page_num, hotels, i, req, ret, disk, out, run_no,
                   exit_status, script, c_resp, c_verdict, site_requests, pg>>

InitConstruct ==
    /\ Fresh
    /\ user_agent = 1
    /\ pc = "construct"
    /\ req = NoReq
    /\ script = <<>>
    /\ c_resp = NoResponse
    /\ c_verdict = "unset"
    /\ config \in SuppliedConfigs

NextConstruct == Construct

SpecConstruct == InitConstruct /\ [][NextConstruct]_vars

----------------------------------------------------------------------------
(* Claims about the block classifier (SpecClassify).                       *)

\* C1: every response with status 403, 429 or 503 is classified BLOCKED,
\* whatever its body (empty, short, long with the content marker).
C1_BlockStatusIsBlocked ==
    (c_verdict # "unset" /\ c_resp.status \in {403, 429, 503})
        => c_verdict = "BLOCKED"

\* C2: every status-200 response whose body is shorter than the threshold and
\* lacks the content marker, the empty body included, is classified BLOCKED.
C2_ShortUnmarkedIsBlocked ==
    (/\ c_verdict # "unset"
     /\ c_resp.status = 200
     /\ c_resp.len < MIN_BODY_LEN
     /\ ~c_resp.marker)
        => c_verdict = "BLOCKED"

----------------------------------------------------------------------------
(* Claims about one fetch (SpecFetch).                                     *)

\* the last step was an attempt that was classified blocked
LastAttemptBlocked == Len(ev) >= 3 /\ ev[3] = Ev("blocked", 0)

\* C3: an attempt classified BLOCKED at retry count a, when a < MAX_RETRIES,
\* sleeps DELAY_AFTER_BLOCK * (a + 1) (more for each further attempt), draws
\* a new identity and retries with a + 1; when a = MAX_RETRIES it returns
\* failure and no further request follows.
C3_BlockedRetrySchedule ==
    LastAttemptBlocked =>
        LET a == ev[2].n
        IN  /\ ev[2].op = "request"
            /\ a \in 0..MAX_RETRIES
            /\ IF a < MAX_RETRIES
               THEN /\ ev = <<Ev("delay", 0), Ev("request", a),
                              Ev("blocked", 0),
                              Ev("sleep", DELAY_AFTER_BLOCK * (a + 1)),
                              Ev("rotate", 0)>>
                    /\ a > 0 => DELAY_AFTER_BLOCK * (a + 1) > DELAY_AFTER_BLOCK * a
                    /\ pc = "make_request"
                    /\ req.retry_count = a + 1
                    /\ ret = "none"
               ELSE /\ ev = <<Ev("delay", 0), Ev("request", a),
                              Ev("blocked", 0)>>
                    /\ pc = "fetch_done"
                    /\ req = NoReq
                    /\ ret = "None"
                    /\ total_requests = MAX_RETRIES + 1

\* C3 witness: the attempt at retry count MAX_RETRIES was blocked, after
\* MAX_RETRIES blocked attempts that were retried
C3_Witness ==
    /\ LastAttemptBlocked
    /\ ev[2].n = MAX_RETRIES
    /\ blocked_count = MAX_RETRIES + 1
    /\ pc = "fetch_done"

\* the target answers 429 on its first k attempts and a valid page next
Script429Then200(k) ==
    /\ script # <<>>
    /\ \A n \in 1..k : script[n].exc = "none" /\ script[n].r.status = 429
    /\ script[k + 1].exc = "none"
    /\ script[k + 1].r.status = 200
    /\ ValidBody(script[k + 1].r)
    /\ ~script[k + 1].r.sig

\* C4: if the target answers 429 on k consecutive attempts (1 <= k <=
\* MAX_RETRIES) and then with a valid 200 page, the fetch returns the body
\* and blocked_count has grown by exactly k (it starts at 0 here).
C4_Succeeds429ThenOk ==
    \A k \in 1..MAX_RETRIES :
        (pc = "fetch_done" /\ Script429Then200(k))
            => (ret = "text" /\ blocked_count = k)

\* C14: whatever the answers, one fetch ends, after at most MAX_RETRIES + 1
\* requests; blocked responses, timeouts and network errors all count on
\* the one retry_count, which grows by one with every retry.
C14_FetchTerminates ==
    /\ [](/\ total_requests <= MAX_RETRIES + 1
          /\ pc = "make_request"
                 => /\ req.retry_count = total_requests
                    /\ req.retry_count <= MAX_RETRIES)
    /\ [][(pc = "make_request" /\ pc' = "make_request")
             => req'.retry_count = req.retry_count + 1]_vars
    /\ <>(pc = "fetch_done")

\* C14 witness: a fetch has ended after MAX_RETRIES + 1 requests that met a
\* timeout, a block and a network error
C14_Witness ==
    /\ pc = "fetch_done"
    /\ ret = "None"
    /\ total_requests = MAX_RETRIES + 1
    /\ blocked_count = 1
    /\ script[1].exc = "Timeout"
    /\ script[3].exc = "RequestException"

\* the last step was the attempt at retry count a
LastAttempt(a) == Len(ev) >= 2 /\ ev[2] = Ev("request", a)

\* the attempt at retry count a was answered by a response
Answered(a) == script # <<>> /\ script[a + 1].exc = "none"

\* C15: an attempt answered with 404, or with another status than 200 that
\* is not taken for a block, is the last of the fetch: it returns None with
\* no sleep, no new User-Agent and no further request, at any retry count.
C15_StatusEndsFetch ==
    \A a \in 0..MAX_RETRIES :
        (/\ LastAttempt(a)
         /\ Answered(a)
         /\ script[a + 1].r.status # 200
         /\ ~IsBlockedResponse(script[a + 1].r))
            => /\ pc = "fetch_done"
               /\ ret = "None"
               /\ req = NoReq
               /\ total_requests = a + 1
               /\ Len(ev) = 3
               /\ ev[3] = IF script[a + 1].r.status = 404
                          THEN Ev("notfound", 0)
                          ELSE Ev("status", script[a + 1].r.status)

\* C15 witness: after two retried attempts the third was answered 404
C15_Witness ==
    /\ LastAttempt(2)
    /\ Answered(2)
    /\ script[3].r.status = 404
    /\ pc = "fetch_done"
    /\ total_requests = 3

\* the answers after which make_request gives up at retry count MAX_RETRIES
GiveUpOutcomes ==
    { o \in ScriptOutcomes : o.exc # "none" \/ IsBlockedResponse(o.r) }

\* C16: what the fetch returns for a 404 answer differs from what it returns
\* when the retries are used up.
C16_NotFoundDistinct ==
    (/\ pc = "fetch_done"
     /\ Len(ev) = 3
     /\ ev[3] = Ev("notfound", 0))
        => \A o \in GiveUpOutcomes : Attempt(o, MAX_RETRIES).value # ret

\* how many of the first n attempts were taken for blocked
BlockedAmong(n) ==
    Cardinality({ k \in 1..n :
                    /\ script[k].exc = "none"
                    /\ IsBlockedResponse(script[k].r) })

\* C17: an attempt at retry count a that meets a timeout or a network error
\* sleeps 2 * (a + 1), respectively 1 * (a + 1), seconds and retries with
\* a + 1 when a < MAX_RETRIES, and returns None when a = MAX_RETRIES; it
\* draws no new User-Agent and does not count as blocked.
C17_TransportRetrySchedule ==
    /\ [](\A a \in 0..MAX_RETRIES :
            (LastAttempt(a) /\ script # <<>> /\ script[a + 1].exc # "none")
                => LET timeout == script[a + 1].exc = "Timeout"
                       tag == IF timeout THEN Ev("timeout", 0)
                              ELSE Ev("neterror", 0)
                       wait == IF timeout THEN 2 * (a + 1) ELSE 1 * (a + 1)
                   IN  /\ blocked_count = BlockedAmong(a + 1)
                       /\ IF a < MAX_RETRIES
                          THEN /\ ev = <<Ev("delay", 0), Ev("request", a),
                                         tag, Ev("sleep", wait)>>
                               /\ pc = "make_request"
                               /\ req.retry_count = a + 1
                          ELSE /\ ev = <<Ev("delay", 0), Ev("request", a),
                                         tag>>
                               /\ pc = "fetch_done"
                               /\ ret = "None"
                               /\ req = NoReq)
    /\ [][(/\ pc = "make_request"
           /\ script # <<>>
           /\ script[req.retry_count + 1].exc # "none")
             => /\ user_agent' = user_agent
                /\ blocked_count' = blocked_count]_vars

\* C17 witness: the attempt at retry count 1 timed out and the fetch is
\* about to retry, after a network error at retry count 0
C17_Witness ==
    /\ LastAttempt(1)
    /\ script[1].exc = "RequestException"
    /\ script[2].exc = "Timeout"
    /\ ev[4] = Ev("sleep", 4)
    /\ pc = "make_request"
    /\ req.retry_count = 2

\* the last attempt of the fetch was answered by a blocked response and is
\* retried
BlockedRetry ==
    /\ LastAttemptBlocked
    /\ pc = "make_request"

\* C27: during a fetch the User-Agent changes only in a step that retries
\* after a blocked response (never with a timeout, a network error, a 404,
\* another status or a success), and every such retry draws the User-Agent
\* anew after its wait, before the next request.
C27_IdentityRotatesOnBlockOnly ==
    /\ [][user_agent' # user_agent => BlockedRetry']_vars
    /\ [](\A k \in DOMAIN ev : ev[k].op = "rotate" => BlockedRetry)
    /\ [](BlockedRetry => /\ ev[Len(ev)] = Ev("rotate", 0)
                          /\ ev[Len(ev) - 1].op = "sleep")

\* a retry after a blocked response has changed the User-Agent, and a later
\* attempt of the same fetch timed out and left it alone
C27_Witness ==
    /\ user_agent # 1
    /\ blocked_count = 1
    /\ Len(ev) >= 3
    /\ ev[3] = Ev("timeout", 0)

----------------------------------------------------------------------------
(* Claims about the crawl (Spec).                                          *)

\* C5: once the hotel loop has moved past a hotel with
\* review_count > 0, its URL is in processed_hotels, whatever the fetch
\* outcome was.
C5_HandledHotelIsProcessed ==
    (pc = "hotel" /\ i > 1 /\ hotels[i - 1].reviews_count > 0)
        => hotels[i - 1].url \in processed_hotels

\* C6: no HTTP request, first attempt or retry, is issued for a URL that is
\* in processed_hotels, nor for one that is in the checkpoint on disk (which
\* a resumed run starts from).
C6_NoRequestForProcessedHotel ==
    pc = "make_request"
        => /\ req.url \notin processed_hotels
           /\ disk.state = "json" => req.url \notin Range(disk.processed_hotels)
           /\ req.caller = "hotel"
                  => /\ i \in 1..Len(hotels)
                     /\ req.url = hotels[i].url

\* C6 witness: a resumed run meets a listed hotel with reviews that the
\* loaded checkpoint holds, and skips it
C6_Witness ==
    /\ run_no = 2
    /\ pc = "hotel"
    /\ ev = <<Ev("hotel_skipped", 1)>>
    /\ hotels[1].reviews_count > 0
    /\ hotels[1].url \in Range(disk.processed_hotels)

\* C7: the listing URL of a page in processed_pages is never requested, and
\* scrape_page for such a page issues no request, changes neither set,
\* appends no record and leaves the counters and the files alone.
C7_ProcessedPageSkipped ==
    /\ [](pc = "make_request" /\ req.caller = "list"
             => /\ page_num \notin processed_pages
                /\ req.url = ListUrl(page_num))
    /\ [][(/\ pc = "run_loop"
           /\ page_num <= EndPage
           /\ page_num \in processed_pages
           /\ pc' # "done"
           /\ run_no' = run_no)
             => /\ pc' = "page_done"
                /\ req' = NoReq
                /\ UNCHANGED <<memvars, disk, out, page_num>>]_vars

\* C7 witness: a resumed run has skipped page 1, which the checkpoint holds
C7_Witness ==
    /\ run_no = 2
    /\ pc = "page_done"
    /\ ev = <<Ev("page_skipped", 1)>>
    /\ 1 \in Range(disk.processed_pages)
    /\ total_requests > 0

\* how many hotel fetches the current page pass has started for entry k
FetchesOf(k) == Cardinality({ n \in DOMAIN pg.fetched : pg.fetched[n] = k })

\* entry k of the listing has been reached by the hotel loop
Reached(k) ==
    \/ k < i
    \/ k = i /\ pc \in {"make_request", "hotel_ret", "hotel_mark", "fatal"}

\* C8: a hotel with review_count = 0 is added to processed_hotels and no
\* fetch is started for it; a hotel with review_count > 0 that was not yet
\* visited when its page was listed gets exactly one fetch; every hotel
\* request is the one of the entry the loop is at.
C8_ZeroReviewsNoFetch ==
    hotels # <<>> =>
        /\ \A k \in 1..Len(hotels) :
             LET h == hotels[k]
             IN  /\ FetchesOf(k) <= 1
                 /\ h.reviews_count = 0
                        => /\ FetchesOf(k) = 0
                           /\ k < i => h.url \in processed_hotels
                 /\ (/\ Reached(k)
                     /\ h.reviews_count > 0
                     /\ h.url \notin pg.ph
                     /\ \A j \in 1..(k - 1) : hotels[j].url # h.url)
                        => FetchesOf(k) = 1
                 /\ FetchesOf(k) = 1 => k <= i
        /\ (pc = "make_request" /\ req.caller = "hotel")
               => /\ FetchesOf(i) = 1
                  /\ hotels[i].reviews_count > 0
                  /\ req.url = hotels[i].url

\* C8 witness: page 1 listed A with 3 reviews and B with none; A was fetched
\* once, B was marked without a fetch
C8_Witness ==
    /\ page_num = 1
    /\ hotels = <<[url |-> "A", reviews_count |-> 3],
                  [url |-> "B", reviews_count |-> 0]>>
    /\ pc = "hotel"
    /\ i = 3
    /\ pg.ph = {}
    /\ pg.fetched = <<1>>
    /\ total_requests = 2
    /\ processed_hotels = {"A", "B"}

\* every hotel of the current listing was in processed_hotels when the page
\* was listed
AllListedProcessed ==
    /\ hotels # <<>>
    /\ \A k \in 1..Len(hotels) : hotels[k].url \in pg.ph

\* C9: a page pass over a listing whose hotels were all in processed_hotels
\* already starts no hotel fetch and leaves the result buffer as it was.
C9_ProcessedListingIdempotent ==
    AllListedProcessed
        => /\ pg.fetched = <<>>
           /\ results = pg.res
           /\ processed_hotels = pg.ph
           /\ pc \in {"hotel", "page_done", "done", "run_loop"}

\* C9 witness: such a pass is over, for a listing of two hotels with reviews,
\* with records in the buffer
C9_Witness ==
    /\ AllListedProcessed
    /\ pc = "page_done"
    /\ Len(hotels) = 2
    /\ \A k \in 1..2 : hotels[k].reviews_count > 0
    /\ results # <<>>

\* the last step wrote the progress file
JustSaved == \E k \in DOMAIN ev : ev[k] = Ev("save_progress", 0)

\* C10: in every crawl state, whatever _save_progress writes, _load_progress
\* reads back the same processed pages, processed hotels, result sequence and
\* counters; so does it from the file a step has just written, and a resumed
\* parser holds exactly what the file holds.
C10_SaveLoadRoundTrip ==
    /\ \A f \in ProgressData(Memory) : LoadProgress(f) = Memory
    /\ (JustSaved /\ disk.state = "json") => LoadProgress(disk) = Memory
    /\ (ev = <<Ev("load_progress", 0)>> /\ disk.state = "json")
           => /\ processed_hotels = Range(disk.processed_hotels)
              /\ processed_pages = Range(disk.processed_pages)
              /\ results = disk.results
              /\ total_requests = disk.total_requests
              /\ blocked_count = disk.blocked_count

\* C10 witness: a resumed parser has loaded a checkpoint with two hotels, a
\* page, a record and both counters positive
C10_Witness ==
    /\ run_no = 2
    /\ ev = <<Ev("load_progress", 0)>>
    /\ disk.state = "json"
    /\ Cardinality(processed_hotels) = 2
    /\ processed_pages # {}
    /\ results # <<>>
    /\ total_requests > 0
    /\ blocked_count > 0

\* C12: every step leaves the progress file as it was or holds a complete
\* document of the parser fields the step ends with; the file is never left
\* cut short, and a save that fails leaves the previous document in place.
C12_SaveIsAtomic ==
    [][disk' = disk \/ disk' \in ProgressData(Memory')]_vars

\* C18: when the fetch of a listing page has failed, the page is not in
\* processed_pages, nor in the progress file, and no listing was parsed, so
\* no hotel of it is requested; and whenever scrape_page meets a page that
\* is not in processed_pages, in a first or a resumed run, it requests the
\* listing.
C18_FailedListingRetried ==
    /\ \A p \in Pages :
         ev = <<Ev("list_failed", p)>>
            => /\ pc = "page_done"
               /\ p = page_num
               /\ p \notin processed_pages
               /\ disk.state = "json" => p \notin Range(disk.processed_pages)
               /\ hotels = <<>>
               /\ req = NoReq
    /\ (pc = "make_request" /\ req.caller = "hotel") => hotels # <<>>
    /\ \A p \in Pages :
         /\ ev = <<Ev("page_skipped", p)>> => p \in processed_pages
         /\ ev = <<Ev("fetch_list", p)>>
               => /\ pc = "make_request"
                  /\ p = page_num
                  /\ req = [url |-> ListUrl(p), caller |-> "list",
                            retry_count |-> 0]
    /\ disk.state = "json" => Range(disk.processed_pages) \subseteq processed_pages

\* C18 witness: a run resumed from a checkpoint without page 1 has requested
\* the listing of page 1 again, and the fetch has failed again
C18_Witness ==
    /\ run_no = 2
    /\ ev = <<Ev("list_failed", 1)>>
    /\ disk.state = "json"
    /\ disk.total_requests > 0
    /\ 1 \notin Range(disk.processed_pages)
    /\ total_requests > disk.total_requests

\* C19: when a page has been added to processed_pages, every hotel of its
\* listing is in processed_hotels.
C19_CompletePageAllVisited ==
    (pc = "page_done" /\ hotels # <<>> /\ page_num \in processed_pages)
        => \A k \in DOMAIN hotels : hotels[k].url \in processed_hotels

\* run has returned through one of its exception handlers
Unwound == pc = "done" /\ exit_status \in {"interrupted", "error"}

\* C20: when run has returned after a KeyboardInterrupt or a fatal error, a
\* write of the progress file has been made, and the document written holds
\* the parser fields as they are.
C20_CheckpointOnUnwind ==
    Unwound =>
        /\ disk.state \in {"json", "cut"}
        /\ disk.state = "json" => LoadProgress(disk) = Memory
        /\ \E k \in DOMAIN ev : ev[k] = Ev("save_progress", 0)

\* C20 witness: the crawl was interrupted between the parsing of a hotel
\* page and the marking of the hotel, and the checkpoint holds the records
C20_Witness ==
    /\ Unwound
    /\ exit_status = "interrupted"
    /\ disk.state = "json"
    /\ disk.results # <<>>
    /\ disk.total_requests = 2
    /\ Range(disk.processed_hotels) = {}

\* C21: when run has returned after the page loop came to its end, the
\* progress file holds the parser fields as they are, counters included
\* (unless a write of the file has failed).
C21_CheckpointOnCompletion ==
    (pc = "done" /\ exit_status = "completed" /\ disk.state # "cut")
        => /\ disk.state = "json"
           /\ LoadProgress(disk) = Memory

\* C22: when the hotel loop has moved past the SAVE_EVERY-th, the
\* 2 * SAVE_EVERY-th, ... hotel of a page, the step that handled that hotel
\* has written the progress file, however the hotel was handled.
C22_PeriodicCheckpoint ==
    (pc = "hotel" /\ i > 1 /\ (i - 1) % SAVE_EVERY = 0) => JustSaved

\* C23: in every progress file the crawl has written, each saved review
\* record belongs to a hotel of the saved processed-hotels list.
C23_SavedRecordsOfProcessedHotels ==
    disk.state = "json"
        => \A k \in DOMAIN disk.results :
               disk.results[k].hotel_url \in Range(disk.processed_hotels)

\* C24: every request of make_request, a first attempt or a retry, comes
\* right after one wait of _random_delay, and one activation sends one
\* request; so no two requests follow each other without a wait.
C24_DelayBeforeEveryRequest ==
    /\ \A k \in DOMAIN ev :
           ev[k].op = "request" => (k > 1 /\ ev[k - 1] = Ev("delay", 0))
    /\ Cardinality({ k \in DOMAIN ev : ev[k].op = "request" }) <= 1

\* a retry (retry_count 1 or more) has sent its request after the wait
C24_Witness ==
    /\ Len(ev) >= 2
    /\ ev[1] = Ev("delay", 0)
    /\ ev[2].op = "request"
    /\ ev[2].n >= 1

\* the last step ended the handling of hotel i - 1, whose page the driver
\* had requested, and another hotel of the page follows
FetchedHotelHandled ==
    /\ pc = "hotel"
    /\ 1 < i
    /\ i <= Len(hotels)
    /\ Len(pg.fetched) > 0
    /\ pg.fetched[Len(pg.fetched)] = i - 1
    /\ ev # <<>>
    /\ ev[1] \in {Ev("hotel_failed", i - 1), Ev("mark_hotel", i - 1)}

\* C25: when the driver has requested a hotel page, with or without success,
\* and another hotel of the page follows, the step that ended the handling
\* has slept the pause between hotels.
C25_PauseAfterEveryFetch ==
    FetchedHotelHandled => \E k \in DOMAIN ev : ev[k] = Ev("sleep_hotel", 0)

\* C26: the step that ends a page marks the page and then writes the
\* progress file, with no request and no pause in it; a progress file the
\* crawl has written names every processed page at every moment, so also
\* before any request of a later page; and the loop stands at a later page of
\* the range only after the pause between pages.
C26_PageEndOrder ==
    /\ (pc = "page_done" /\ ev # <<>> /\ ev[1].op = "mark_page")
           => /\ ev[1] = Ev("mark_page", page_num)
              /\ Len(ev) >= 2
              /\ ev[2] = Ev("save_progress", 0)
              /\ \A k \in DOMAIN ev : ev[k].op \notin {"request", "sleep_page"}
              /\ page_num \in processed_pages
    /\ disk.state = "json" => Range(disk.processed_pages) = processed_pages
    /\ (pc = "run_loop" /\ page_num \in (StartPage + 1)..EndPage)
           => ev = <<Ev("sleep_page", 0)>>

\* the first run has handled the hotels of page 1, written the file naming
\* page 1, slept the pause and stands at page 2
C26_Witness ==
    /\ pc = "run_loop"
    /\ page_num = 2
    /\ run_no = 1
    /\ ev = <<Ev("sleep_page", 0)>>
    /\ processed_hotels # {}
    /\ disk.state = "json"
    /\ 1 \in Range(disk.processed_pages)

\* C28: a run that no interrupt has ended returns only after the page loop
\* has gone through every page number of the range, in ascending order:
\* it ends as completed, with the cursor past the last page.
C28_RunHandlesEveryPage ==
    (pc = "done" /\ exit_status # "interrupted")
        => /\ exit_status = "completed"
           /\ page_num = EndPage + 1

\* C29: within one run, after the load, no step takes a page out of
\* processed_pages or a hotel out of processed_hotels, and no step removes or
\* moves a record of results: the earlier sequence is a prefix of the later.
C29_StateOnlyGrows ==
    [][run_no' = run_no
         => /\ processed_pages \subseteq processed_pages'
            /\ processed_hotels \subseteq processed_hotels'
            /\ Len(results) <= Len(results')
            /\ SubSeq(results', 1, Len(results)) = results]_vars

\* the first run has marked two hotels one after the other, appended the
\* records of both and marked their page
C29_Witness ==
    /\ run_no = 1
    /\ processed_hotels = {"A", "B"}
    /\ processed_pages = {1}
    /\ Len(results) >= 2
    /\ \E j, k \in DOMAIN results :
           j < k /\ results[j].hotel_url # results[k].hotel_url

\* a step of scrape_page has called _save_progress and the write has failed
FailedSave ==
    /\ JustSaved
    /\ exit_status = "running"
    /\ disk.state = "cut"

\* C30: a step of scrape_page whose _save_progress fails goes on to the next
\* hotel or to the end of the page, calls _save_progress once only, leaves
\* results and the counters as they were, and leaves the two sets as the
\* marks of the step have made them.
C30_FailedSaveGoesOn ==
    [][FailedSave'
         => /\ pc' \in {"hotel", "page_done"}
            /\ Cardinality({ k \in DOMAIN ev' :
                                 ev'[k] = Ev("save_progress", 0) }) = 1
            /\ results' = results
            /\ total_requests' = total_requests
            /\ blocked_count' = blocked_count
            /\ processed_pages' = processed_pages \cup
                   { ev'[k].n : k \in { j \in DOMAIN ev' :
                                            ev'[j].op = "mark_page" } }
            /\ processed_hotels' = processed_hotels \cup
                   { hotels[ev'[k].n].url :
                       k \in { j \in DOMAIN ev' : ev'[j].op = "mark_hotel" } }
      ]_vars

\* the save at the end of page 1 has failed in the first run, and the run
\* has gone on to a request of page 2 with page 1 still marked in memory
C30_Witness ==
    /\ run_no = 1
    /\ disk.state = "cut"
    /\ pc = "make_request"
    /\ page_num = 2
    /\ 1 \in processed_pages

\* C31: when run has ended, a normal completion gives the success status,
\* and an end by interrupt or by fatal error gives, after the save, a value
\* or an exit code that differs from the one of a normal completion.
C31_OutcomeTellsFailure ==
    pc = "done"
        => IF exit_status = "completed"
           THEN ProcessExit(exit_status) = 0
           ELSE \/ ProcessExit(exit_status) # ProcessExit("completed")
                \/ RunReturn(exit_status) # RunReturn("completed")

\* C34: blocked_count never exceeds total_requests; within a run every attempt
\* of make_request adds one to total_requests, adds one to blocked_count when
\* its response is taken for blocked and nothing otherwise, and no other step
\* changes either counter.
C34_Counters ==
    /\ [](blocked_count <= total_requests)
    /\ [][run_no' = run_no
            => IF site_requests' # site_requests
               THEN /\ total_requests' = total_requests + 1
                    /\ blocked_count' =
                           IF \E k \in DOMAIN ev' : ev'[k] = Ev("blocked", 0)
                           THEN blocked_count + 1
                           ELSE blocked_count
               ELSE /\ total_requests' = total_requests
                    /\ blocked_count' = blocked_count]_vars

\* a retry has been counted: the first attempt of a request was taken for
\* blocked, the second was answered otherwise
C34_Witness ==
    /\ run_no = 1
    /\ total_requests = 2
    /\ blocked_count = 1
    /\ Len(ev) >= 3
    /\ ev[2] = Ev("request", 1)
    /\ ev[3].op # "blocked"

\* the last step parsed a fetched list page that holds no hotel
EmptyListingHandled ==
    /\ pc = "page_done"
    /\ Len(ev) = 2
    /\ ev[1].op = "mark_page"

\* C35: the step that finds no hotel on a fetched list page marks the page
\* and writes the progress file at once, and the written file names the page;
\* a parser started on a written file holds the pages the file names, and no
\* list page that the parser holds as processed is requested.
C35_EmptyListingMarked ==
    /\ EmptyListingHandled
           => /\ ev = <<Ev("mark_page", page_num), Ev("save_progress", 0)>>
              /\ page_num \in processed_pages
              /\ disk.state = "json"
                     => page_num \in Range(disk.processed_pages)
    /\ (ev = <<Ev("load_progress", 0)>> /\ disk.state = "json")
           => processed_pages = Range(disk.processed_pages)
    /\ (pc = "make_request" /\ req.caller = "list")
           => page_num \notin processed_pages

\* a resumed parser skips page 1, which an earlier run had marked after its
\* only request, the one for the list page, had brought a page without hotels
C35_Witness ==
    /\ run_no = 2
    /\ pc = "page_done"
    /\ page_num = 1
    /\ ev = <<Ev("page_skipped", 1)>>
    /\ total_requests = 1
    /\ processed_hotels = {}
    /\ disk.state = "json"
    /\ Range(disk.processed_pages) = {1}

----------------------------------------------------------------------------
(* Claims about the export (SpecExport).                                   *)

\* the positions of the buffer that hold the last record of their review_id
LastOfId ==
    { k \in DOMAIN results :
        \A j \in (k + 1)..Len(results) :
            results[j].review_id # results[k].review_id }

\* C11: the exported file holds, for each review_id of the buffer, exactly
\* one record, the last one appended with that id, and the exported records
\* stand in the order in which they stand in the buffer.
C11_ExportKeepsLast ==
    pc = "saved" =>
        /\ Len(out) = Cardinality(LastOfId)
        /\ \A k \in LastOfId :
             \E n \in DOMAIN out :
                /\ out[n] = results[k]
                /\ n = Cardinality({ j \in LastOfId : j <= k })
        /\ \A n, m \in DOMAIN out :
             n # m => out[n].review_id # out[m].review_id

\* C11 witness: two records of one review_id were appended with a record of
\* another id between them; the export holds the other record, then the
\* second of the two
C11_Witness ==
    /\ pc = "saved"
    /\ Len(results) = 3
    /\ results[1].review_id = results[3].review_id
    /\ results[1] # results[3]
    /\ results[2].review_id # results[1].review_id
    /\ out = <<results[2], results[3]>>

----------------------------------------------------------------------------
(* Claims about the load (SpecLoad).                                       *)

\* C13: after _load_progress the parser holds either all five fields of a
\* well formed file or the empty state; for a missing, unparsable or
\* malformed file it holds the empty state.
C13_LoadAllOrNothing ==
    pc = "loaded" =>
        IF disk.state = "json"
        THEN /\ processed_hotels = Range(disk.processed_hotels)
             /\ processed_pages = Range(disk.processed_pages)
             /\ results = disk.results
             /\ total_requests = disk.total_requests
             /\ blocked_count = disk.blocked_count
        ELSE Memory = EmptyState

----------------------------------------------------------------------------
(* Claims about the construction (SpecConstruct).                          *)

\* C32: the parser never changes a field of the Config object it is given:
\* the delay bounds and the block backoff base it uses and records are the
\* supplied ones.
C32_ConfigUnmodified == [][config' = config]_vars

----------------------------------------------------------------------------
(* Claims about the body of a fetched page (SpecFetchBody).                *)

\* C33: make_request returns a body only from an attempt whose response is
\* not taken for blocked, has status 200, an HTML content type and more than
\* MIN_BODY_LEN characters; a status-200 response that is not taken for
\* blocked and has MIN_BODY_LEN characters or fewer ends the fetch with None
\* on that attempt, with no sleep, no retry and blocked_count as the earlier
\* attempts left it.
C33_BodyOnlyWhenValid ==
    /\ ret = "text" => \E a \in 0..MAX_RETRIES : LastAttempt(a) /\ Answered(a)
    /\ \A a \in 0..MAX_RETRIES :
           (LastAttempt(a) /\ Answered(a))
               => LET r == script[a + 1].r
                  IN  /\ ret = "text"
                          => /\ ~IsBlockedResponse(r)
                             /\ r.status = 200
                             /\ r.html
                             /\ r.len > MIN_BODY_LEN
                      /\ (/\ r.status = 200
                          /\ ~IsBlockedResponse(r)
                          /\ r.len <= MIN_BODY_LEN)
                             => /\ ret = "None"
                                /\ pc = "fetch_done"
                                /\ req = NoReq
                                /\ ev = <<Ev("delay", 0), Ev("request", a),
                                          Ev("invalid", 0)>>
                                /\ total_requests = a + 1
                                /\ blocked_count = BlockedAmong(a)

\* after a first attempt taken for blocked, the retry was answered 200 with an
\* HTML body of exactly MIN_BODY_LEN characters, and the fetch has failed
C33_Witness ==
    /\ LastAttempt(1)
    /\ Answered(1)
    /\ script[2].r = [status |-> 200, len |-> MIN_BODY_LEN, marker |-> FALSE,
                      sig |-> FALSE, html |-> TRUE]
    /\ ret = "None"
    /\ pc = "fetch_done"
    /\ blocked_count = 1

====
